---------------------------- MODULE Spec2Model ----------------------------
(***************************************************************************)
(* Session coordinator of the Conso web IDE.                               *)
(*                                                                         *)
(*   Spec      the editor page (src/src/App.js) together with the analysis *)
(*             connection singleton (src/unnamed/part_007, lines 147-289): *)
(*             debounced analysis requests, the four phase statuses, the   *)
(*             run / input-modal sequence.                                 *)
(*   SpecTerm  the interactive terminal (src/unnamed/part_002): the        *)
(*             execution WebSocket effect, its handlers and the status     *)
(*             synchronisation effect, driven by an owner that passes      *)
(*             isRunning, runId, websocketUrl, executionStatus and         *)
(*             onProcessExit.                                              *)
(*   FairSpecTerm  SpecTerm where a due render is carried out and a        *)
(*             socket on which close() was called gets its close event.    *)
(*                                                                         *)
(* React state is a variable per useState/useRef cell; a handler is one    *)
(* action (the event loop serialises handlers); a render followed by the   *)
(* effects whose dependencies changed is the action Commit.                *)
(***************************************************************************)
EXTENDS Integers, Sequences, FiniteSets, TLC

(***************************************************************************)
(* Bounds of the model.                                                    *)
(***************************************************************************)
MaxInFlight == 1
MaxSaves == 1
MaxRequests == 2
MaxRuns == 2
MaxExits == 2
MaxLine == 2
MaxKeyRuns == 1
MaxSockets == 2
MaxSwitchFiles == 2
MaxNewFiles == 2
MaxReplaced == 1
MaxReads == 1

(***************************************************************************)
(* Program constants.                                                      *)
(***************************************************************************)
maxReconnectAttempts == 5

\* "Maximum of 10 files reached."
maxFiles == 10

VARIABLES
  (* ---- App.js state ---- *)
  content,            \* currentFile.content
  lexicalStatus, syntaxStatus, semanticStatus,
  executionStatus,    \* App state, and the prop the terminal receives
  tokens, syntaxValid, semanticValid,
  analyzing,          \* debounce flag
  debounceTimer,      \* the pending setTimeout closures: the newValue of each
  isRunning,          \* App state, and the prop the terminal receives
  transpiledCode, programOutput,
  isInputModalVisible, requiredPrompts,
  requests,           \* outstanding initiateRun / executeRunWithInput calls
  files,              \* the ids of the files, in the order of the list
  currentFileId,
  lastFileId,         \* uuidv4(): the ids handed out so far are 1..lastFileId
  diskReads,          \* FileReader loads in progress: the files.length each saw
  appMounted,         \* MainApp is mounted
  (* ---- websocketService ---- *)
  socket,             \* readyState of this.socket
  serviceIsConnected, \* this.isConnected
  reconnectAttempts,
  reconnectTimer,     \* a setTimeout(() => this.connect()) is pending
  inflight,           \* analysis requests the server has not answered yet
  replaced,           \* sockets closed by disconnect(), close event still due
  (* ---- InteractiveTerminal ---- *)
  runId, websocketUrl,       \* props
  onProcessExitProp,         \* prop onProcessExit: the identity of the function
  currentExecutionStatus,    \* useState(executionStatus)
  isConnected,               \* useState(false)
  wsRef,                     \* wsRef.current: 0 is null, else a socket id
  sockets,                   \* id -> the WebSocket object and its handlers' closure
  wsDeps, syncDeps,          \* dependency values at the effects' last run
  termWrite,                 \* what the step taken last wrote to xterm
  lineBuffer,                \* lineBufferRef.current, as character codes
  wsSent,                    \* data of the stdin frame the step taken last sent
  mounted,                   \* the component is mounted, xterm exists
  (* ---- the owner of the terminal ---- *)
  runCount,                  \* run ids handed out so far
  (* ---- history ---- *)
  exitCalls,                 \* socket id -> the codes its onmessage passed to onProcessExit
  runText                    \* the text of the initiateRun call the modal is for

appVars == <<content, lexicalStatus, syntaxStatus, semanticStatus, tokens,
             syntaxValid, semanticValid, analyzing, debounceTimer,
             transpiledCode, programOutput, isInputModalVisible,
             requiredPrompts, requests>>
serviceVars == <<socket, serviceIsConnected, reconnectAttempts,
                 reconnectTimer, inflight>>
termVars == <<runId, websocketUrl, onProcessExitProp,
              currentExecutionStatus,
              isConnected,
              wsRef, sockets, wsDeps, syncDeps, termWrite, lineBuffer,
              wsSent, mounted, runCount, exitCalls>>
sharedVars == <<executionStatus, isRunning>>
fileVars == <<files, currentFileId, lastFileId, diskReads, appMounted,
              replaced>>
pageVars == <<fileVars, runText>>
vars == <<appVars, serviceVars, termVars, sharedVars, pageVars>>

(***************************************************************************)
(* Values.                                                                 *)
(***************************************************************************)
Texts == {" ", "a", "b"}

\* String.prototype.trim on the texts of the model
Trim(s) == IF s = " " THEN "" ELSE s

INFO == "info"
SUCCESS == "success"
ERROR == "error"
RUNNING == "running"
PENDING == "pending"

\* A message is the sequence of its pieces; <<>> is null.
Null == <<>>

createStatus(message, type) == [message |-> message, type |-> type]

Pending == createStatus(Null, PENDING)

\* Array.prototype.join
JoinFirst(errs, sep) == IF errs = <<>> THEN <<>> ELSE <<errs[1]>>

RECURSIVE Join(_, _)
Join(errs, sep) ==
  IF errs = <<>> THEN <<>>
  ELSE IF Len(errs) = 1 THEN <<errs[1]>>
  ELSE <<errs[1], sep>> \o Join(Tail(errs), sep)

canRunNoTrim == syntaxValid /\ ~isRunning /\ content # ""

\* currentFile.content.trim().length > 0
canRun == syntaxValid /\ ~isRunning /\ Trim(content) # ""



(***************************************************************************)
(* Frames of the analysis connection and results of the run calls.         *)
(***************************************************************************)
LexerFrames ==
  { [success |-> TRUE,  tokens |-> <<"t1">>, errors |-> <<>>],
    [success |-> FALSE, tokens |-> <<>>,     errors |-> <<"e1", "e2">>] }

ParserFrames ==
  { [syntaxValid |-> TRUE,  errors |-> <<>>],
    [syntaxValid |-> FALSE, errors |-> <<"e1", "e2">>] }

RunResults == {"semantic_error", "input_required", "input_required_none",
               "success", "failure", "rejected"}
ExecuteResults == {"success", "failure", "rejected"}

SavedSuffix == " (File Saved)"
SavedCount(msg) == Cardinality({k \in DOMAIN msg : msg[k] = SavedSuffix})

RemoveAt(seq, k) == SubSeq(seq, 1, k - 1) \o SubSeq(seq, k + 1, Len(seq))


(***************************************************************************)
(* websocketService (src/unnamed/part_007, lines 147-289)                  *)
(***************************************************************************)
\* connect(): a no-op while the socket is open or connecting
connect(sock) == IF sock \in {"open", "connecting"} THEN sock ELSE "connecting"

\* sendCode(code) on a connected service: socket.send(JSON.stringify({code}))
sendCode(code) == Append(inflight, [forText |-> code, stage |-> "lexer"])

(***************************************************************************)
(* App.js: listeners of the analysis connection                            *)
(***************************************************************************)
\* socket.onopen, then the 'open' listener
WsOpen ==
  /\ socket = "connecting"
  /\ socket' = "open"
  /\ serviceIsConnected' = TRUE
  /\ reconnectAttempts' = 0
  /\ lexicalStatus' = createStatus(<<"WebSocket Connected">>, INFO)
  /\ UNCHANGED <<content, syntaxStatus, semanticStatus, executionStatus, tokens,
                 syntaxValid, semanticValid, analyzing, debounceTimer, isRunning,
                 transpiledCode, programOutput, isInputModalVisible,
                 requiredPrompts, requests, reconnectTimer, inflight>>
  /\ UNCHANGED termVars
  /\ UNCHANGED pageVars

\* the statuses the 'error' and 'close' listeners reset
TransportResetKeepsSyntax(lexical) ==
  /\ lexicalStatus' = lexical
  /\ semanticStatus' = Pending
  /\ executionStatus' = Pending
  /\ syntaxValid' = FALSE
  /\ semanticValid' = FALSE
  /\ UNCHANGED syntaxStatus

TransportResetKeepsValid(lexical) ==
  /\ lexicalStatus' = lexical
  /\ syntaxStatus' = Pending
  /\ semanticStatus' = Pending
  /\ executionStatus' = Pending
  /\ semanticValid' = FALSE
  /\ UNCHANGED syntaxValid

TransportReset(lexical) ==
  /\ lexicalStatus' = lexical
  /\ syntaxStatus' = Pending
  /\ semanticStatus' = Pending
  /\ executionStatus' = Pending
  /\ syntaxValid' = FALSE
  /\ semanticValid' = FALSE

\* socket.onclose (after socket.onerror when the connection failed: the
\* two events are fired by one task, and the 'close' listener overwrites
\* what the 'error' listener set), then the reconnect scheduling
WsCloseAlwaysRetries ==
  /\ socket \in {"connecting", "open"}
  /\ socket' = "closed"
  /\ serviceIsConnected' = FALSE
  /\ inflight' = <<>>
  /\ TransportReset(createStatus(<<"WebSocket Disconnected">>, INFO))
  /\ reconnectAttempts' = reconnectAttempts + 1
  /\ reconnectTimer' = TRUE
  /\ UNCHANGED <<content, tokens, analyzing, debounceTimer, isRunning,
                 transpiledCode, programOutput, isInputModalVisible,
                 requiredPrompts, requests>>
  /\ UNCHANGED termVars
  /\ UNCHANGED pageVars

WsClose ==
  /\ socket \in {"connecting", "open"}
  /\ socket' = "closed"
  /\ serviceIsConnected' = FALSE
  /\ inflight' = <<>>
  /\ TransportReset(createStatus(<<"WebSocket Disconnected">>, INFO))
  /\ IF reconnectAttempts < maxReconnectAttempts
       THEN /\ reconnectAttempts' = reconnectAttempts + 1
            /\ reconnectTimer' = TRUE
       ELSE UNCHANGED <<reconnectAttempts, reconnectTimer>>
  /\ UNCHANGED <<content, tokens, analyzing, debounceTimer, isRunning,
                 transpiledCode, programOutput, isInputModalVisible,
                 requiredPrompts, requests>>
  /\ UNCHANGED termVars
  /\ UNCHANGED pageVars

\* setTimeout(() => this.connect(), this.reconnectDelay)
ReconnectTimerFires ==
  /\ reconnectTimer
  /\ reconnectTimer' = FALSE
  /\ socket' = connect(socket)
  /\ UNCHANGED <<appVars, serviceIsConnected, reconnectAttempts, inflight,
                 executionStatus, isRunning>>
  /\ UNCHANGED termVars
  /\ UNCHANGED pageVars

\* a frame {type: 'error', message} of the server: the 'error' listener
DeliverErrorFrame ==
  /\ socket = "open"
  /\ TransportReset(createStatus(<<"WebSocket Error: ", "m">>, ERROR))
  /\ UNCHANGED <<content, tokens, analyzing, debounceTimer, isRunning,
                 transpiledCode, programOutput, isInputModalVisible,
                 requiredPrompts, requests>>
  /\ UNCHANGED serviceVars
  /\ UNCHANGED termVars
  /\ UNCHANGED pageVars

\* socket.onmessage with a frame of another type: the default branch of the
\* switch logs a warning and calls no listener
unknownFrameAsError ==
  /\ TransportReset(createStatus(<<"WebSocket Error: ", "m">>, ERROR))
  /\ UNCHANGED <<tokens, transpiledCode, programOutput>>

unknownFrame ==
  UNCHANGED <<lexicalStatus, syntaxStatus, semanticStatus, executionStatus,
              syntaxValid, semanticValid, tokens, transpiledCode,
              programOutput>>

DeliverUnknownFrame ==
  /\ socket = "open"
  /\ unknownFrame
  /\ UNCHANGED <<content, analyzing, debounceTimer, isRunning,
                 isInputModalVisible, requiredPrompts, requests>>
  /\ UNCHANGED serviceVars
  /\ UNCHANGED termVars
  /\ UNCHANGED pageVars

\* what the 'lexerResult' listener does with the frame `data`
lexerResultKeepsExecution(data) ==
  /\ tokens' = data.tokens
  /\ lexicalStatus' =
       IF ~data.success
         THEN createStatus(<<"Error: ">> \o Join(data.errors, "; "), ERROR)
         ELSE createStatus(<<"OK">>, SUCCESS)
  /\ syntaxStatus' = Pending
  /\ semanticStatus' = Pending
  /\ syntaxValid' = FALSE
  /\ semanticValid' = FALSE
  /\ programOutput' = ""
  /\ transpiledCode' = ""
  /\ UNCHANGED executionStatus

lexerResult(data) ==
  /\ tokens' = data.tokens
  /\ lexicalStatus' =
       IF ~data.success
         THEN createStatus(<<"Error: ">> \o Join(data.errors, "; "), ERROR)
         ELSE createStatus(<<"OK">>, SUCCESS)
  /\ syntaxStatus' = Pending
  /\ semanticStatus' = Pending
  /\ executionStatus' = Pending
  /\ syntaxValid' = FALSE
  /\ semanticValid' = FALSE
  /\ programOutput' = ""
  /\ transpiledCode' = ""

\* the server answers the oldest request with a lexer_result frame, and
\* then goes on to parse it or not
DeliverLexerResultOf(data) ==
  /\ socket = "open"
  /\ inflight # <<>>
  /\ Head(inflight).stage = "lexer"
  /\ lexerResult(data)
  /\ \E parses \in BOOLEAN :
       inflight' = IF parses
                     THEN <<[Head(inflight) EXCEPT !.stage = "parser"]>>
                          \o Tail(inflight)
                     ELSE Tail(inflight)
  /\ UNCHANGED <<content, analyzing, debounceTimer, isRunning,
                 isInputModalVisible, requiredPrompts, requests>>
  /\ UNCHANGED <<socket, serviceIsConnected, reconnectAttempts, reconnectTimer>>
  /\ UNCHANGED termVars
  /\ UNCHANGED pageVars

DeliverLexerResult == \E data \in LexerFrames : DeliverLexerResultOf(data)

\* what the 'parserResult' listener does with the frame `data`
parserResult(data) ==
  /\ syntaxValid' = data.syntaxValid
  /\ syntaxStatus' =
       IF data.syntaxValid
         THEN createStatus(<<"OK">>, SUCCESS)
         ELSE createStatus(<<"Error: ">> \o Join(data.errors, "; "), ERROR)
  /\ semanticStatus' = Pending
  /\ executionStatus' = Pending
  /\ semanticValid' = FALSE
  /\ programOutput' = ""
  /\ transpiledCode' = ""
  /\ UNCHANGED <<lexicalStatus, tokens>>

\* the server answers the oldest request with a parser_result frame
DeliverParserResultOf(data) ==
  /\ socket = "open"
  /\ inflight # <<>>
  /\ Head(inflight).stage = "parser"
  /\ parserResult(data)
  /\ inflight' = Tail(inflight)
  /\ UNCHANGED <<content, analyzing, debounceTimer, isRunning,
                 isInputModalVisible, requiredPrompts, requests>>
  /\ UNCHANGED <<socket, serviceIsConnected, reconnectAttempts, reconnectTimer>>
  /\ UNCHANGED termVars
  /\ UNCHANGED pageVars

DeliverParserResult == \E data \in ParserFrames : DeliverParserResultOf(data)

(***************************************************************************)
(* App.js: the editor's handlers                                           *)
(***************************************************************************)
\* the `if (!analyzing)` block of handleCodeChange: a timer is scheduled
\* only when none is pending, and it keeps the newValue of its own call
scheduleAlways(newValue) ==
  /\ analyzing' = TRUE
  /\ debounceTimer' = Append(debounceTimer, newValue)

schedule(newValue) ==
  IF ~analyzing
    THEN /\ analyzing' = TRUE
         /\ debounceTimer' = Append(debounceTimer, newValue)
    ELSE UNCHANGED <<analyzing, debounceTimer>>

handleCodeChangeKeepsSyntax(newValue) ==
  /\ content' = newValue
  /\ lexicalStatus' = createStatus(<<"Analyzing...">>, RUNNING)
  /\ semanticStatus' = Pending
  /\ executionStatus' = Pending
  /\ semanticValid' = FALSE
  /\ programOutput' = ""
  /\ transpiledCode' = ""
  /\ schedule(newValue)
  /\ UNCHANGED <<tokens, isRunning, isInputModalVisible, requiredPrompts,
                 requests, syntaxStatus, syntaxValid>>
  /\ UNCHANGED serviceVars
  /\ UNCHANGED termVars
  /\ UNCHANGED pageVars

handleCodeChange(newValue) ==
  /\ content' = newValue
  /\ lexicalStatus' = createStatus(<<"Analyzing...">>, RUNNING)
  /\ syntaxStatus' = Pending
  /\ semanticStatus' = Pending
  /\ executionStatus' = Pending
  /\ syntaxValid' = FALSE
  /\ semanticValid' = FALSE
  /\ programOutput' = ""
  /\ transpiledCode' = ""
  /\ schedule(newValue)
  /\ UNCHANGED <<tokens, isRunning, isInputModalVisible, requiredPrompts,
                 requests>>
  /\ UNCHANGED serviceVars
  /\ UNCHANGED termVars
  /\ UNCHANGED pageVars

HandleCodeChange == \E newValue \in Texts : handleCodeChange(newValue)

\* the setTimeout callback of handleCodeChange, 750 ms after it was set
DebounceTimerFiresStaysBusy ==
  /\ debounceTimer # <<>>
  /\ IF serviceIsConnected
       THEN /\ Len(inflight) < MaxInFlight
            /\ inflight' = sendCode(debounceTimer[1])
            /\ analyzing' = FALSE
            /\ UNCHANGED lexicalStatus
       ELSE /\ lexicalStatus' =
                 createStatus(<<"Error: WebSocket not connected">>, ERROR)
            /\ UNCHANGED <<inflight, analyzing>>
  /\ debounceTimer' = Tail(debounceTimer)
  /\ UNCHANGED <<content, syntaxStatus, semanticStatus, executionStatus, tokens,
                 syntaxValid, semanticValid, isRunning, transpiledCode,
                 programOutput, isInputModalVisible, requiredPrompts, requests>>
  /\ UNCHANGED <<socket, serviceIsConnected, reconnectAttempts, reconnectTimer>>
  /\ UNCHANGED termVars
  /\ UNCHANGED pageVars

DebounceTimerFires ==
  /\ debounceTimer # <<>>
  /\ IF serviceIsConnected
       THEN /\ Len(inflight) < MaxInFlight
            /\ inflight' = sendCode(debounceTimer[1])
            /\ UNCHANGED lexicalStatus
       ELSE /\ lexicalStatus' =
                 createStatus(<<"Error: WebSocket not connected">>, ERROR)
            /\ UNCHANGED inflight
  /\ analyzing' = FALSE
  /\ debounceTimer' = Tail(debounceTimer)
  /\ UNCHANGED <<content, syntaxStatus, semanticStatus, executionStatus, tokens,
                 syntaxValid, semanticValid, isRunning, transpiledCode,
                 programOutput, isInputModalVisible, requiredPrompts, requests>>
  /\ UNCHANGED <<socket, serviceIsConnected, reconnectAttempts, reconnectTimer>>
  /\ UNCHANGED termVars
  /\ UNCHANGED pageVars

\* handleSave: the download, then the " (File Saved)" note on Lexical
HandleSave ==
  /\ SavedCount(lexicalStatus.message) < MaxSaves
  /\ lexicalStatus' =
       [lexicalStatus EXCEPT !.message = lexicalStatus.message \o <<SavedSuffix>>]
  /\ UNCHANGED <<content, syntaxStatus, semanticStatus, executionStatus, tokens,
                 syntaxValid, semanticValid, analyzing, debounceTimer, isRunning,
                 transpiledCode, programOutput, isInputModalVisible,
                 requiredPrompts, requests>>
  /\ UNCHANGED serviceVars
  /\ UNCHANGED termVars
  /\ UNCHANGED pageVars

ClearTerminal ==
  /\ lexicalStatus' = createStatus(<<"Terminal Cleared. Ready.">>, PENDING)
  /\ syntaxStatus' = Pending
  /\ semanticStatus' = Pending
  /\ executionStatus' = Pending
  /\ programOutput' = ""
  /\ transpiledCode' = ""
  /\ UNCHANGED <<content, tokens, syntaxValid, semanticValid, analyzing,
                 debounceTimer, isRunning, isInputModalVisible, requiredPrompts,
                 requests>>
  /\ UNCHANGED serviceVars
  /\ UNCHANGED termVars
  /\ UNCHANGED pageVars

(***************************************************************************)
(* App.js: the run sequence                                                *)
(***************************************************************************)
\* the guard of handleRun
mayRunWhileRunning == syntaxValid /\ Trim(content) # ""

mayRunAnySyntax == ~isRunning /\ Trim(content) # ""

mayRun == canRun

\* handleRun up to its await
HandleRun ==
  /\ IF ~mayRun
       THEN /\ executionStatus' = createStatus(
                 <<IF isRunning THEN "Already running."
                   ELSE IF ~syntaxValid THEN "Syntax errors detected."
                   ELSE IF Trim(content) = "" THEN "No code to run."
                   ELSE "Cannot run.">>, ERROR)
            /\ UNCHANGED <<isRunning, programOutput, transpiledCode,
                           semanticStatus, requests>>
       ELSE /\ Len(requests) < MaxRequests
            /\ isRunning' = TRUE
            /\ programOutput' = ""
            /\ transpiledCode' = ""
            /\ semanticStatus' = createStatus(<<"Running...">>, RUNNING)
            /\ executionStatus' =
                 createStatus(<<"Waiting for Semantic...">>, RUNNING)
            /\ requests' = Append(requests, [kind |-> "initiate", code |-> content])
  /\ UNCHANGED <<content, lexicalStatus, syntaxStatus, tokens, syntaxValid,
                 semanticValid, analyzing, debounceTimer, isInputModalVisible,
                 requiredPrompts>>
  /\ UNCHANGED serviceVars
  /\ UNCHANGED termVars
  /\ UNCHANGED pageVars

\* handleRun after its await: initiateRun settled with `result`
initiateSettled(k, result) ==
  /\ requests' = RemoveAt(requests, k)
  /\ CASE result = "semantic_error" ->
            /\ semanticStatus' =
                 createStatus(<<"Error: ">> \o Join(<<"e1", "e2">>, "; "), ERROR)
            /\ executionStatus' =
                 createStatus(<<"Aborted due to Semantic Error">>, ERROR)
            /\ semanticValid' = FALSE
            /\ isRunning' = FALSE
            /\ UNCHANGED <<requiredPrompts, isInputModalVisible,
                           transpiledCode, programOutput>>
       [] result \in {"input_required", "input_required_none"} ->
            /\ semanticStatus' = createStatus(<<"OK">>, SUCCESS)
            /\ semanticValid' = TRUE
            /\ executionStatus' = createStatus(<<"Input Required">>, INFO)
            /\ requiredPrompts' =
                 IF result = "input_required" THEN <<"p1">> ELSE <<>>
            /\ isInputModalVisible' = TRUE
            /\ UNCHANGED <<isRunning, transpiledCode, programOutput>>
       [] result = "success" ->
            /\ semanticStatus' = createStatus(<<"OK">>, SUCCESS)
            /\ semanticValid' = TRUE
            /\ transpiledCode' = "c"
            /\ programOutput' = "out"
            /\ executionStatus' = createStatus(<<"Execution OK ", "">>, SUCCESS)
            /\ isRunning' = FALSE
            /\ UNCHANGED <<requiredPrompts, isInputModalVisible>>
       [] result = "failure" ->
            /\ semanticStatus' = createStatus(<<"OK">>, SUCCESS)
            /\ semanticValid' = TRUE
            /\ executionStatus' =
                 createStatus(<<"Error (", "transpile", "): ", "e1">>, ERROR)
            /\ transpiledCode' = "c"
            /\ isRunning' = FALSE
            /\ UNCHANGED <<requiredPrompts, isInputModalVisible, programOutput>>
       [] result = "rejected" ->
            /\ semanticStatus' = createStatus(<<"Error: ", "m">>, ERROR)
            /\ executionStatus' = createStatus(<<"Failed">>, ERROR)
            /\ semanticValid' = FALSE
            /\ isRunning' = FALSE
            /\ UNCHANGED <<requiredPrompts, isInputModalVisible,
                           transpiledCode, programOutput>>

InitiateSettles ==
  /\ \E k \in DOMAIN requests, result \in RunResults :
       /\ requests[k].kind = "initiate"
       /\ initiateSettled(k, result)
       /\ runText' = IF result = "input_required" THEN requests[k].code
                     ELSE ""
  /\ UNCHANGED <<content, lexicalStatus, syntaxStatus, tokens, syntaxValid,
                 analyzing, debounceTimer>>
  /\ UNCHANGED serviceVars
  /\ UNCHANGED termVars
  /\ UNCHANGED fileVars

\* the modal is rendered only with a non-empty prompt list (InputModal.js:456)
ModalShown == isInputModalVisible /\ requiredPrompts # <<>>

\* handleInputSubmit up to its await
HandleInputSubmit ==
  /\ ModalShown
  /\ Len(requests) < MaxRequests
  /\ isInputModalVisible' = FALSE
  /\ executionStatus' = createStatus(<<"Executing with inputs...">>, RUNNING)
  /\ requests' = Append(requests, [kind |-> "execute", code |-> content])
  /\ UNCHANGED <<content, lexicalStatus, syntaxStatus, semanticStatus, tokens,
                 syntaxValid, semanticValid, analyzing, debounceTimer, isRunning,
                 transpiledCode, programOutput, requiredPrompts>>
  /\ UNCHANGED serviceVars
  /\ UNCHANGED termVars
  /\ UNCHANGED fileVars
  /\ runText' = ""

\* handleInputSubmit after its await: executeRunWithInput settled
executeSettledNoFinally(k, result) ==
  /\ requests' = RemoveAt(requests, k)
  /\ CASE result = "success" ->
            /\ transpiledCode' = "c"
            /\ programOutput' = "out"
            /\ executionStatus' = createStatus(<<"Execution OK ", "">>, SUCCESS)
            /\ isRunning' = FALSE
            /\ requiredPrompts' = <<>>
       [] result = "failure" ->
            /\ executionStatus' =
                 createStatus(<<"Error (", "execution", "): ", "e1">>, ERROR)
            /\ transpiledCode' = "c"
            /\ isRunning' = FALSE
            /\ requiredPrompts' = <<>>
            /\ UNCHANGED programOutput
       [] result = "rejected" ->
            /\ executionStatus' =
                 createStatus(<<"Execution Failed: ", "m">>, ERROR)
            /\ UNCHANGED <<transpiledCode, programOutput, isRunning,
                           requiredPrompts>>

executeSettled(k, result) ==
  /\ requests' = RemoveAt(requests, k)
  /\ CASE result = "success" ->
            /\ transpiledCode' = "c"
            /\ programOutput' = "out"
            /\ executionStatus' = createStatus(<<"Execution OK ", "">>, SUCCESS)
       [] result = "failure" ->
            /\ executionStatus' =
                 createStatus(<<"Error (", "execution", "): ", "e1">>, ERROR)
            /\ transpiledCode' = "c"
            /\ UNCHANGED programOutput
       [] result = "rejected" ->
            /\ executionStatus' =
                 createStatus(<<"Execution Failed: ", "m">>, ERROR)
            /\ UNCHANGED <<transpiledCode, programOutput>>
  /\ isRunning' = FALSE
  /\ requiredPrompts' = <<>>

ExecuteSettles ==
  /\ \E k \in DOMAIN requests, result \in ExecuteResults :
       /\ requests[k].kind = "execute"
       /\ executeSettled(k, result)
  /\ UNCHANGED <<content, lexicalStatus, syntaxStatus, semanticStatus, tokens,
                 syntaxValid, semanticValid, analyzing, debounceTimer,
                 isInputModalVisible>>
  /\ UNCHANGED serviceVars
  /\ UNCHANGED termVars
  /\ UNCHANGED pageVars

\* handleInputModalClose: the modal's Cancel button
HandleInputModalCloseKeepsRunning ==
  /\ ModalShown
  /\ isInputModalVisible' = FALSE
  /\ executionStatus' = createStatus(<<"Run cancelled by user">>, INFO)
  /\ requiredPrompts' = <<>>
  /\ UNCHANGED <<content, lexicalStatus, syntaxStatus, semanticStatus, tokens,
                 syntaxValid, semanticValid, analyzing, debounceTimer,
                 transpiledCode, programOutput, requests, isRunning>>
  /\ UNCHANGED serviceVars
  /\ UNCHANGED termVars
  /\ UNCHANGED pageVars

HandleInputModalClose ==
  /\ ModalShown
  /\ isInputModalVisible' = FALSE
  /\ isRunning' = FALSE
  /\ executionStatus' = createStatus(<<"Run cancelled by user">>, INFO)
  /\ requiredPrompts' = <<>>
  /\ UNCHANGED <<content, lexicalStatus, syntaxStatus, semanticStatus, tokens,
                 syntaxValid, semanticValid, analyzing, debounceTimer,
                 transpiledCode, programOutput, requests>>
  /\ UNCHANGED serviceVars
  /\ UNCHANGED termVars
  /\ UNCHANGED fileVars
  /\ runText' = ""

(***************************************************************************)
(* InteractiveTerminal (src/unnamed/part_002)                              *)
(***************************************************************************)
ExitCodes == {0, 2}

Exited(exitCode) ==
  createStatus(<<"Exited (", ToString(exitCode), ")">>,
               IF exitCode = 0 THEN SUCCESS ELSE ERROR)

TermFrames ==
  { [type |-> "stdout", data |-> "x", exit_code |-> 0],
    [type |-> "stdout", data |-> "",  exit_code |-> 0],
    [type |-> "stderr", data |-> "x", exit_code |-> 0],
    [type |-> "resize", data |-> "x", exit_code |-> 0],
    [type |-> "unparsable", data |-> "", exit_code |-> 0] }
  \cup { [type |-> "exit", data |-> "", exit_code |-> c] : c \in ExitCodes }

appUnchanged ==
  UNCHANGED <<content, lexicalStatus, syntaxStatus, semanticStatus, tokens,
              syntaxValid, semanticValid, analyzing, debounceTimer,
              transpiledCode, programOutput, isInputModalVisible,
              requiredPrompts, requests, pageVars>>

\* a step that is no keystroke: the line buffer is kept, no frame is sent
inputIdle ==
  /\ UNCHANGED <<lineBuffer, mounted>>
  /\ wsSent' = <<>>

\* WebSocket.close(): an open or connecting socket starts closing
CloseOnlyOpen(socks, s) ==
  IF socks[s].readyState = "open"
    THEN [socks EXCEPT ![s].readyState = "closing"]
    ELSE socks

Close(socks, s) ==
  IF socks[s].readyState \in {"connecting", "open"}
    THEN [socks EXCEPT ![s].readyState = "closing"]
    ELSE socks

\* "Close existing WebSocket if any", before the new one is constructed
closeHeld(socks, ref) == IF ref # 0 THEN Close(socks, ref) ELSE socks

\* the dependency lists of the two effects
wsEffectDeps ==
  [isRunning |-> isRunning, websocketUrl |-> websocketUrl, runId |-> runId,
   onProcessExit |-> onProcessExitProp]

statusEffectDeps ==
  [executionStatus |-> executionStatus, isConnected |-> isConnected,
   isRunning |-> isRunning]

\* a render is due: an effect has not yet run with the current values
CommitPending == wsEffectDeps # wsDeps \/ statusEffectDeps # syncDeps

\* A render and the effects whose dependencies changed, in the order of
\* their definition: the cleanup and the body of the WebSocket effect, then
\* the status effect. Each reads the state of the render; the state they
\* set is applied afterwards, a later setter overriding an earlier one.
Commit ==
  LET wsChanged == wsEffectDeps # wsDeps
      syncChanged == statusEffectDeps # syncDeps
      cleaned == IF wsChanged /\ wsRef # 0 /\ sockets[wsRef].readyState = "open"
                   THEN Close(sockets, wsRef)
                   ELSE sockets
      connects == wsChanged /\ isRunning /\ websocketUrl # 0 /\ runId # 0
      stops == wsChanged /\ ~isRunning /\ wsRef # 0
      syncs == syncChanged /\ ~isConnected /\ ~isRunning
  IN
  /\ CommitPending
  /\ sockets' =
       IF connects
         THEN Append(closeHeld(cleaned, wsRef),
                     [readyState |-> "connecting",
                      isRunning |-> isRunning,
                      currentExecutionStatus |-> currentExecutionStatus])
       ELSE IF stops THEN Close(cleaned, wsRef)
       ELSE cleaned
  /\ wsRef' = IF connects THEN Len(sockets) + 1 ELSE wsRef
  /\ exitCalls' = IF connects THEN Append(exitCalls, <<>>) ELSE exitCalls
  /\ isConnected' = IF (connects /\ wsRef # 0) \/ stops THEN FALSE
                    ELSE isConnected
  /\ currentExecutionStatus' =
       IF syncs THEN executionStatus
       ELSE IF stops /\ currentExecutionStatus.type = RUNNING
         THEN createStatus(<<"Stopped">>, INFO)
       ELSE currentExecutionStatus
  /\ wsDeps' = wsEffectDeps
  /\ syncDeps' = statusEffectDeps
  /\ termWrite' = <<>>
  /\ UNCHANGED <<runId, websocketUrl, onProcessExitProp, runCount,
                 executionStatus, isRunning>>
  /\ inputIdle
  /\ appUnchanged
  /\ UNCHANGED serviceVars

\* ws.onopen
SockOpen(s) ==
  /\ sockets[s].readyState = "connecting"
  /\ sockets' = [sockets EXCEPT ![s].readyState = "open"]
  /\ isConnected' = TRUE
  /\ currentExecutionStatus' = createStatus(<<"Process Started...">>, RUNNING)
  /\ termWrite' = <<"[Connected to process]">>
  /\ UNCHANGED <<runId, websocketUrl, onProcessExitProp, wsRef, wsDeps,
                 syncDeps, runCount, exitCalls, executionStatus, isRunning>>
  /\ inputIdle
  /\ appUnchanged
  /\ UNCHANGED serviceVars

\* onProcessExit(exitCode) of the owner: the session ends, its fields are
\* cleared and Execution reports the exit; an owner that is already idle
\* ignores the event
onProcessExit(exitCode) ==
  IF isRunning
    THEN /\ isRunning' = FALSE
         /\ runId' = 0
         /\ websocketUrl' = 0
         /\ executionStatus' = Exited(exitCode)
    ELSE UNCHANGED <<isRunning, runId, websocketUrl, executionStatus>>

\* the exit branch of ws.onmessage
exitFrameAlwaysSuccess(s, exitCode) ==
  /\ termWrite' = <<"[Process exited with code ", ToString(exitCode), "]">>
  /\ currentExecutionStatus' =
       createStatus(<<"Exited (", ToString(exitCode), ")">>, SUCCESS)
  /\ onProcessExit(exitCode)
  /\ exitCalls' = [exitCalls EXCEPT ![s] = Append(@, exitCode)]

exitFrame(s, exitCode) ==
  /\ termWrite' = <<"[Process exited with code ", ToString(exitCode), "]">>
  /\ currentExecutionStatus' = Exited(exitCode)
  /\ onProcessExit(exitCode)
  /\ exitCalls' = [exitCalls EXCEPT ![s] = Append(@, exitCode)]

\* the exit frames handled so far, on all sockets
RECURSIVE SumLen(_)
SumLen(seqs) == IF seqs = <<>> THEN 0 ELSE Len(Head(seqs)) + SumLen(Tail(seqs))

exitFramesHandled == SumLen(exitCalls)

\* ws.onmessage: a message event is delivered only to an open socket
SockMessage(s, message) ==
  /\ sockets[s].readyState = "open"
  /\ CASE message.type = "stdout" /\ message.data # "" ->
            /\ termWrite' = <<message.data>>
            /\ UNCHANGED <<currentExecutionStatus, exitCalls, isRunning, runId,
                           websocketUrl, executionStatus>>
       [] message.type = "stderr" /\ message.data # "" ->
            /\ termWrite' = <<"red", message.data>>
            /\ UNCHANGED <<currentExecutionStatus, exitCalls, isRunning, runId,
                           websocketUrl, executionStatus>>
       [] message.type = "exit" ->
            /\ exitFramesHandled < MaxExits
            /\ exitFrame(s, message.exit_code)
       [] message.type = "unparsable" ->
            /\ termWrite' = <<"[Error processing message from server]">>
            /\ UNCHANGED <<currentExecutionStatus, exitCalls, isRunning, runId,
                           websocketUrl, executionStatus>>
       [] OTHER ->
            /\ termWrite' = <<>>
            /\ UNCHANGED <<currentExecutionStatus, exitCalls, isRunning, runId,
                           websocketUrl, executionStatus>>
  /\ UNCHANGED <<isConnected, wsRef, sockets, wsDeps, syncDeps, runCount,
                 onProcessExitProp>>
  /\ inputIdle
  /\ appUnchanged
  /\ UNCHANGED serviceVars

\* the condition of ws.onclose, on the values its closure holds
connectionLost(sock) ==
  sock.isRunning /\ sock.currentExecutionStatus.type = RUNNING

\* a closed socket fires no more events: what its handlers held is dropped
closedSocket ==
  [readyState |-> "closed", isRunning |-> FALSE,
   currentExecutionStatus |-> Pending]

\* The close event of a socket, after an error event when the connection
\* failed (one task fires both): ws.onerror, then ws.onclose. The handlers
\* read isRunning and currentExecutionStatus of the render that made them.
SockClose(s, failed) ==
  /\ sockets[s].readyState # "closed"
  /\ sockets' = [sockets EXCEPT ![s] = closedSocket]
  /\ isConnected' = FALSE
  /\ LET lost == connectionLost(sockets[s])
     IN /\ currentExecutionStatus' =
             IF lost THEN createStatus(<<"Connection Lost">>, ERROR)
             ELSE IF failed THEN createStatus(<<"Connection Error">>, ERROR)
             ELSE currentExecutionStatus
        /\ termWrite' =
             (IF failed THEN <<"[WebSocket Connection Error]">> ELSE <<>>)
             \o (IF lost THEN <<"[Connection lost]">> ELSE <<>>)
  /\ wsRef' = IF wsRef = s THEN 0 ELSE wsRef
  /\ UNCHANGED <<runId, websocketUrl, onProcessExitProp, wsDeps, syncDeps,
                 runCount, exitCalls, executionStatus, isRunning>>
  /\ inputIdle
  /\ appUnchanged
  /\ UNCHANGED serviceVars

(***************************************************************************)
(* The owner of the terminal: the run session manager                      *)
(***************************************************************************)
\* an event of the owner comes after the render of the event before it
ownerFrame ==
  /\ ~CommitPending
  /\ termWrite' = <<>>
  /\ UNCHANGED <<currentExecutionStatus, isConnected, wsRef, sockets, wsDeps,
                 syncDeps, exitCalls, onProcessExitProp>>
  /\ inputIdle
  /\ appUnchanged
  /\ UNCHANGED serviceVars

\* Idle -> Preparing
OwnerRun ==
  /\ ~isRunning
  /\ runCount < MaxRuns
  /\ isRunning' = TRUE
  /\ executionStatus' = createStatus(<<"Preparing...">>, RUNNING)
  /\ UNCHANGED <<runId, websocketUrl, runCount>>
  /\ ownerFrame

\* Preparing -> Connecting: the prepare call returned a run id and an address
OwnerPrepared ==
  /\ isRunning
  /\ runId = 0
  /\ runCount < MaxRuns
  /\ runCount' = runCount + 1
  /\ runId' = runCount + 1
  /\ websocketUrl' = runCount + 1
  /\ executionStatus' = createStatus(<<"Connecting...">>, RUNNING)
  /\ UNCHANGED isRunning
  /\ ownerFrame

\* Preparing -> Failed -> Idle
OwnerPrepareFailed ==
  /\ isRunning
  /\ runId = 0
  /\ isRunning' = FALSE
  /\ executionStatus' = createStatus(<<"Aborted">>, ERROR)
  /\ UNCHANGED <<runId, websocketUrl, runCount>>
  /\ ownerFrame

\* any state -> Cancelled -> Idle
OwnerCancel ==
  /\ isRunning
  /\ isRunning' = FALSE
  /\ runId' = 0
  /\ websocketUrl' = 0
  /\ executionStatus' = createStatus(<<"Stopped">>, INFO)
  /\ UNCHANGED runCount
  /\ ownerFrame

(***************************************************************************)
(* The editor page: state after the first render and its effects           *)
(***************************************************************************)
AppInit ==
  /\ content \in Texts
  /\ lexicalStatus = createStatus(<<"Ready">>, PENDING)
  /\ syntaxStatus = Pending
  /\ semanticStatus = Pending
  /\ executionStatus = Pending
  /\ tokens = <<>>
  /\ syntaxValid = FALSE
  /\ semanticValid = FALSE
  /\ analyzing = FALSE
  /\ debounceTimer = <<>>
  /\ isRunning = FALSE
  /\ transpiledCode = ""
  /\ programOutput = ""
  /\ isInputModalVisible = FALSE
  /\ requiredPrompts = <<>>
  /\ requests = <<>>
  /\ diskReads = <<>>
  /\ appMounted = TRUE
  /\ runText = ""

\* the files of a first visit: one file, which is the current one
FilesInit ==
  /\ files = <<1>>
  /\ currentFileId = 1
  /\ lastFileId = 1

\* the files of a visit that finds maxFiles - 1 files in localStorage
StoredFilesInit ==
  /\ files = [k \in 1..(maxFiles - 1) |-> k]
  /\ currentFileId = 1
  /\ lastFileId = maxFiles - 1

\* websocketService after connect() in the mount effect; the sendCode of
\* the mount effect finds the service not connected and sends nothing
ServiceInit ==
  /\ socket = "connecting"
  /\ serviceIsConnected = FALSE
  /\ reconnectAttempts = 0
  /\ reconnectTimer = FALSE
  /\ inflight = <<>>
  /\ replaced = 0

TermInit ==
  /\ runId = 0
  /\ websocketUrl = 0
  /\ currentExecutionStatus = Pending
  /\ isConnected = FALSE
  /\ wsRef = 0
  /\ sockets = <<>>
  /\ onProcessExitProp = 0
  /\ wsDeps = [isRunning |-> FALSE, websocketUrl |-> 0, runId |-> 0,
               onProcessExit |-> 0]
  /\ syncDeps = [executionStatus |-> Pending, isConnected |-> FALSE,
                 isRunning |-> FALSE]
  /\ termWrite = <<>>
  /\ lineBuffer = <<>>
  /\ wsSent = <<>>
  /\ mounted = TRUE
  /\ runCount = 0
  /\ exitCalls = <<>>

Init == AppInit /\ FilesInit /\ ServiceInit /\ TermInit

Next ==
  \/ WsOpen
  \/ WsClose
  \/ ReconnectTimerFires
  \/ DeliverErrorFrame
  \/ DeliverUnknownFrame
  \/ DeliverLexerResult
  \/ DeliverParserResult
  \/ HandleCodeChange
  \/ DebounceTimerFires
  \/ HandleSave
  \/ ClearTerminal
  \/ HandleRun
  \/ InitiateSettles
  \/ HandleInputSubmit
  \/ ExecuteSettles
  \/ HandleInputModalClose

Spec == Init /\ [][Next]_vars

SocketIds == 1..Len(sockets)

TermNext ==
  \/ OwnerRun
  \/ OwnerPrepared
  \/ OwnerPrepareFailed
  \/ OwnerCancel
  \/ Commit
  \/ \E s \in SocketIds : SockOpen(s)
  \/ \E s \in SocketIds, message \in TermFrames : SockMessage(s, message)
  \/ \E s \in SocketIds, failed \in BOOLEAN : SockClose(s, failed)

\* the terminal does not read the file: one content stands for all
InitTerm == Init /\ content = "a"

SpecTerm == InitTerm /\ [][TermNext]_vars

\* A scheduled render is carried out, and a socket on which close() was
\* called gets its close event.
FairSpecTerm ==
  /\ SpecTerm
  /\ WF_vars(Commit)
  /\ WF_vars(\E s \in SocketIds :
               sockets[s].readyState = "closing" /\ SockClose(s, FALSE))

\* The owner renders again and hands the terminal a new function as
\* onProcessExit (a callback that is not memoized is a new function at every
\* render of the owner); the other props are the same. MaxSockets bounds the
\* sockets of the behaviours in which this happens.
OwnerRerender ==
  /\ ~CommitPending
  /\ Len(sockets) < MaxSockets
  /\ onProcessExitProp' = 1 - onProcessExitProp
  /\ termWrite' = <<>>
  /\ UNCHANGED <<runId, websocketUrl, currentExecutionStatus, isConnected,
                 wsRef, sockets, wsDeps, syncDeps, runCount, exitCalls,
                 executionStatus, isRunning>>
  /\ inputIdle
  /\ appUnchanged
  /\ UNCHANGED serviceVars

(***************************************************************************)
(* The keyboard of the terminal: term.onData, the clearTerminal handle and *)
(* the unmounting of the component                                         *)
(***************************************************************************)
\* Backspace, Enter, a control character, space, a letter, Delete
Keys == {8, 13, 31, 32, 97, 127}

\* String.fromCharCode, for what xterm is given to write
fromCharCode(code) ==
  CASE code = 8 -> "\\b"
    [] code = 10 -> "\n"
    [] code = 13 -> "\r"
    [] code = 31 -> "\\x1f"
    [] code = 32 -> " "
    [] code = 97 -> "a"
    [] code = 127 -> "\\x7f"

\* wsRef.current is a socket and its readyState is OPEN
canSendAnyState == wsRef # 0

canSend == wsRef # 0 /\ sockets[wsRef].readyState = "open"

\* lineBufferRef.current.slice(0, -1)
sliceFirst(line) == SubSeq(line, 2, Len(line))

sliceLast(line) == SubSeq(line, 1, Len(line) - 1)

\* code >= 32
printableFrom31(code) == code >= 31

printable(code) == code >= 32

\* The listener given to term.onData, called with the characters of one
\* input event; it looks at the code of the first one.
onData(data) ==
  LET code == data[1] IN
  /\ IF code = 13
       THEN /\ termWrite' = <<"\r\n">>
            /\ wsSent' = IF canSend THEN lineBuffer \o <<10>> ELSE <<>>
            /\ lineBuffer' = <<>>
     ELSE IF code = 8 \/ code = 127
       THEN IF Len(lineBuffer) > 0
              THEN /\ lineBuffer' = sliceLast(lineBuffer)
                   /\ termWrite' = <<"\\b \\b">>
                   /\ wsSent' = <<>>
              ELSE /\ termWrite' = <<>>
                   /\ wsSent' = <<>>
                   /\ UNCHANGED lineBuffer
     ELSE IF printable(code)
       THEN /\ lineBuffer' = lineBuffer \o data
            /\ termWrite' = [i \in 1..Len(data) |-> fromCharCode(data[i])]
            /\ wsSent' = <<>>
     ELSE /\ termWrite' = <<>>
          /\ wsSent' = <<>>
          /\ UNCHANGED lineBuffer
  /\ UNCHANGED <<runId, websocketUrl, onProcessExitProp, currentExecutionStatus,
                 isConnected, wsRef, sockets, wsDeps, syncDeps, mounted,
                 runCount, exitCalls, executionStatus, isRunning>>
  /\ appUnchanged
  /\ UNCHANGED serviceVars

\* one key is pressed
KeyPress ==
  \E key \in Keys :
    /\ printable(key) /\ key # 127 => Len(lineBuffer) < MaxLine
    /\ onData(<<key>>)

\* clearTerminal of the handle given to the owner; it reads the isRunning of
\* the render that made the handle
clearTerminal ==
  /\ ~CommitPending
  /\ termWrite' = <<"clear", "\r\n$ ">>
  /\ lineBuffer' = <<>>
  /\ wsSent' = <<>>
  /\ currentExecutionStatus' =
       IF ~isRunning THEN createStatus(<<"Terminal Cleared">>, INFO)
       ELSE currentExecutionStatus
  /\ UNCHANGED <<runId, websocketUrl, onProcessExitProp, isConnected, wsRef,
                 sockets, wsDeps, syncDeps, mounted, runCount, exitCalls,
                 executionStatus, isRunning>>
  /\ appUnchanged
  /\ UNCHANGED serviceVars

\* The component is unmounted: the cleanup of the xterm effect disposes the
\* listener and the terminal, the cleanup of the WebSocket effect closes
\* the held socket when it is open. The state and the refs of the component
\* are gone with it; wsRef is kept to name the socket it held.
Unmount ==
  /\ mounted' = FALSE
  /\ sockets' = IF wsRef # 0 /\ sockets[wsRef].readyState = "open"
                  THEN Close(sockets, wsRef)
                  ELSE sockets
  /\ currentExecutionStatus' = Pending
  /\ isConnected' = FALSE
  /\ lineBuffer' = <<>>
  /\ termWrite' = <<>>
  /\ wsSent' = <<>>
  /\ UNCHANGED <<runId, websocketUrl, onProcessExitProp, wsRef, wsDeps,
                 syncDeps, runCount, exitCalls, executionStatus, isRunning>>
  /\ appUnchanged
  /\ UNCHANGED serviceVars

\* the frames of a session at the keyboard: output of the process, and its
\* exit with code 0
KeyFrames ==
  { message \in TermFrames :
      message.type \in {"stdout", "exit"} /\ message.exit_code = 0 }

\* The terminal with its keyboard, while it is mounted: MaxKeyRuns sessions,
\* their output frames and exit frames with code 0, and connections that
\* close without error.
KeysNext ==
  \/ mounted /\ runCount < MaxKeyRuns /\ OwnerRun
  \/ mounted /\ runCount < MaxKeyRuns /\ OwnerPrepared
  \/ mounted /\ OwnerPrepareFailed
  \/ mounted /\ OwnerCancel
  \/ mounted /\ Commit
  \/ mounted /\ \E s \in SocketIds : SockOpen(s)
  \/ mounted /\ \E s \in SocketIds, message \in KeyFrames : SockMessage(s, message)
  \/ mounted /\ \E s \in SocketIds : SockClose(s, FALSE)
  \/ mounted /\ KeyPress
  \/ mounted /\ clearTerminal
  \/ mounted /\ Unmount

SpecKeys == InitTerm /\ [][KeysNext]_vars

\* The terminal under an owner that renders again during a session
RerenderNext ==
  \/ runCount < MaxKeyRuns /\ OwnerRun
  \/ runCount < MaxKeyRuns /\ OwnerPrepared
  \/ OwnerCancel
  \/ OwnerRerender
  \/ Commit
  \/ \E s \in SocketIds : SockOpen(s)
  \/ \E s \in SocketIds, message \in KeyFrames : SockMessage(s, message)
  \/ \E s \in SocketIds : SockClose(s, FALSE)

SpecRerender == InitTerm /\ [][RerenderNext]_vars

\* The chunks of one paste: xterm gives the pasted text to onData in one
\* event, its line breaks as carriage returns. A letter and a line break,
\* two letters, a line break and a letter.
PasteChunks == {<<97, 13>>, <<97, 97>>, <<13, 97>>}

\* text is pasted into the terminal
Paste ==
  \E data \in PasteChunks :
    /\ Len(lineBuffer) + Len(data) <= MaxLine
    /\ onData(data)

\* The terminal with its keyboard and the clipboard
PasteNext ==
  \/ KeysNext
  \/ mounted /\ Paste

SpecPaste == InitTerm /\ [][PasteNext]_vars

(***************************************************************************)
(* The page with its two connections: the listeners of the analysis        *)
(* connection, and the terminal with its owner and its keyboard            *)
(***************************************************************************)
\* the frames of the execution connection: those of a session at the
\* keyboard, and a frame of a type the terminal does not know
PageFrames ==
  KeyFrames \cup { message \in TermFrames : message.type = "resize" }

\* the edit and the key of the page: one text other than the initial one, and
\* one printable key
PageTexts == {"b"}

PageKeys == {97}

FramesNext ==
  \/ WsOpen
  \/ \E newValue \in PageTexts : handleCodeChange(newValue)
  \/ DebounceTimerFires
  \/ DeliverLexerResult
  \/ DeliverParserResult
  \/ DeliverUnknownFrame
  \/ runCount < MaxKeyRuns /\ OwnerRun
  \/ runCount < MaxKeyRuns /\ OwnerPrepared
  \/ Commit
  \/ \E s \in SocketIds : SockOpen(s)
  \/ \E s \in SocketIds, message \in PageFrames : SockMessage(s, message)
  \/ \E s \in SocketIds : SockClose(s, FALSE)
  \/ \E key \in PageKeys :
       /\ Len(lineBuffer) < MaxLine
       /\ onData(<<key>>)

SpecFrames == InitTerm /\ [][FramesNext]_vars

(***************************************************************************)
(* App.js: the files of the page, and the effect that connects the         *)
(* analysis service again when the current file changes                    *)
(***************************************************************************)
\* the content of a file: a text of the editor, or nothing
FileTexts == Texts \cup {""}

IndexOf(seq, x) == CHOOSE k \in 1..Len(seq) : seq[k] = x

\* files.filter(file => file.id !== fileId)
Without(seq, x) ==
  IF \E k \in 1..Len(seq) : seq[k] = x
    THEN RemoveAt(seq, IndexOf(seq, x))
    ELSE seq

\* disconnect() of the service: close() on the socket, this.socket = null,
\* this.isConnected = false. The close event of a socket that was open or
\* connecting comes later, to the handlers connect() gave that socket.
disconnect ==
  /\ replaced' = IF socket \in {"open", "connecting"}
                   THEN replaced + 1 ELSE replaced
  /\ serviceIsConnected' = FALSE
  /\ inflight' = <<>>

\* The effect of the analysis connection when currentFileId has changed to a
\* file with the content newContent: its cleanup calls disconnect(), its body
\* registers the listeners again, calls connect(), which constructs a
\* socket, and then sendCode(content) for a file with content; the service
\* is not connected, so sendCode calls connect() again and sends nothing.
\* For a file without content the body sets the four statuses instead; they
\* replace what the handler has set: `lexical`, and Pending for the three
\* others if the handler has `reset` them.
connectionEffect(newContent, lexical, reset) ==
  /\ disconnect
  /\ socket' = "connecting"
  /\ UNCHANGED <<reconnectAttempts, reconnectTimer>>
  /\ content' = newContent
  /\ lexicalStatus' = IF newContent # "" THEN lexical
                      ELSE createStatus(<<"Ready">>, PENDING)
  /\ syntaxStatus' = IF newContent = "" \/ reset THEN Pending
                     ELSE syntaxStatus
  /\ semanticStatus' = IF newContent = "" \/ reset THEN Pending
                       ELSE semanticStatus
  /\ executionStatus' = IF newContent = "" \/ reset THEN Pending
                        ELSE executionStatus

\* what the handlers of the file list reset besides the statuses
fileReset ==
  /\ syntaxValid' = FALSE
  /\ semanticValid' = FALSE
  /\ programOutput' = ""
  /\ transpiledCode' = ""
  /\ tokens' = <<>>

\* handleFileSelect(fileId), and the effect
handleFileSelect(fileId, newContent) ==
  /\ fileId # currentFileId
  /\ replaced < MaxReplaced
  /\ currentFileId' = fileId
  /\ fileReset
  /\ connectionEffect(newContent, createStatus(<<"Loading file...">>, INFO),
                      TRUE)
  /\ UNCHANGED <<files, lastFileId, diskReads, appMounted>>
  /\ UNCHANGED <<analyzing, debounceTimer, isRunning, isInputModalVisible,
                 requiredPrompts, requests>>
  /\ UNCHANGED termVars
  /\ UNCHANGED runText

HandleFileSelect ==
  \E k \in 1..Len(files), newContent \in FileTexts :
    handleFileSelect(files[k], newContent)

\* handleFileCreate(name), and the effect
HandleFileCreate ==
  /\ Len(files) < maxFiles
  /\ replaced < MaxReplaced
  /\ lastFileId' = lastFileId + 1
  /\ files' = Append(files, lastFileId + 1)
  /\ currentFileId' = lastFileId + 1
  /\ fileReset
  /\ connectionEffect("",
       createStatus(<<"New file created. Ready.">>, PENDING), TRUE)
  /\ UNCHANGED <<diskReads, appMounted>>
  /\ UNCHANGED <<analyzing, debounceTimer, isRunning, isInputModalVisible,
                 requiredPrompts, requests>>
  /\ UNCHANGED termVars
  /\ UNCHANGED runText

\* handleFileDelete(fileId), and the effect when the current file was deleted
handleFileDelete(fileId, newContent) ==
  /\ Len(files) > 1
  /\ files' = Without(files, fileId)
  /\ IF fileId = currentFileId
       THEN /\ replaced < MaxReplaced
            /\ currentFileId' = Without(files, fileId)[1]
            /\ fileReset
            /\ connectionEffect(newContent,
                 createStatus(<<"Deleted ", "name", ". Loading ", "name",
                                "...">>, INFO), TRUE)
       ELSE /\ lexicalStatus' = createStatus(<<"Deleted ", "name">>, INFO)
            /\ UNCHANGED <<currentFileId, content, syntaxStatus,
                           semanticStatus, executionStatus, syntaxValid,
                           semanticValid, programOutput, transpiledCode,
                           tokens, replaced>>
            /\ UNCHANGED serviceVars
  /\ UNCHANGED <<lastFileId, diskReads, appMounted>>
  /\ UNCHANGED <<analyzing, debounceTimer, isRunning, isInputModalVisible,
                 requiredPrompts, requests>>
  /\ UNCHANGED termVars
  /\ UNCHANGED runText

\* handleOpenFromDisk(event): a FileReader starts to read the file; its
\* onload will see the files of this render
HandleOpenFromDisk ==
  /\ Len(diskReads) < MaxReads
  /\ diskReads' = Append(diskReads, Len(files))
  /\ UNCHANGED <<files, currentFileId, lastFileId, appMounted, replaced>>
  /\ UNCHANGED appVars
  /\ UNCHANGED serviceVars
  /\ UNCHANGED sharedVars
  /\ UNCHANGED termVars
  /\ UNCHANGED runText

\* reader.onload of the read `k`, and the effect: the file is added and made
\* the current one; the handler resets no status and no flag
readerOnload(k, newContent) ==
  /\ diskReads' = RemoveAt(diskReads, k)
  /\ IF diskReads[k] >= maxFiles
       THEN /\ UNCHANGED <<files, currentFileId, lastFileId, replaced>>
            /\ UNCHANGED appVars
            /\ UNCHANGED serviceVars
            /\ UNCHANGED sharedVars
       ELSE /\ replaced < MaxReplaced
            /\ lastFileId' = lastFileId + 1
            /\ files' = Append(files, lastFileId + 1)
            /\ currentFileId' = lastFileId + 1
            /\ connectionEffect(newContent, lexicalStatus, FALSE)
            /\ UNCHANGED <<syntaxValid, semanticValid, programOutput,
                           transpiledCode, tokens, analyzing, debounceTimer,
                           isRunning, isInputModalVisible, requiredPrompts,
                           requests>>
  /\ UNCHANGED appMounted
  /\ UNCHANGED termVars
  /\ UNCHANGED runText

\* The close event of a socket that disconnect() has closed (after its error
\* event, if it was still connecting): the onclose that connect() gave it
\* sets the flag of the service, calls the 'close' listeners, which set the
\* state of a mounted page, and schedules a reconnect.
ReplacedClose ==
  /\ replaced > 0
  /\ replaced' = replaced - 1
  /\ serviceIsConnected' = FALSE
  /\ IF appMounted
       THEN TransportReset(createStatus(<<"WebSocket Disconnected">>, INFO))
       ELSE UNCHANGED <<lexicalStatus, syntaxStatus, semanticStatus,
                        executionStatus, syntaxValid, semanticValid>>
  /\ IF reconnectAttempts < maxReconnectAttempts
       THEN /\ reconnectAttempts' = reconnectAttempts + 1
            /\ reconnectTimer' = TRUE
       ELSE UNCHANGED <<reconnectAttempts, reconnectTimer>>
  /\ UNCHANGED <<socket, inflight>>
  /\ UNCHANGED <<content, tokens, analyzing, debounceTimer, isRunning,
                 transpiledCode, programOutput, isInputModalVisible,
                 requiredPrompts, requests>>
  /\ UNCHANGED <<files, currentFileId, lastFileId, diskReads, appMounted>>
  /\ UNCHANGED termVars
  /\ UNCHANGED runText

\* MainApp is unmounted: the cleanup of the effect calls disconnect(). The
\* listeners stay registered with the service, and set nothing any more.
AppUnmount ==
  /\ appMounted' = FALSE
  /\ disconnect
  /\ socket' = "closed"
  /\ UNCHANGED <<reconnectAttempts, reconnectTimer>>
  /\ UNCHANGED <<files, currentFileId, lastFileId, diskReads>>
  /\ UNCHANGED appVars
  /\ UNCHANGED sharedVars
  /\ UNCHANGED termVars
  /\ UNCHANGED runText

\* The page when the current file changes: the edits and the results of the
\* analysis, a second file and the selection of a file, clearTerminal, and
\* the events of the service; the events of the current socket and the
\* debounce timer are followed while the page is mounted.
SwitchNext ==
  \/ appMounted /\ WsOpen
  \/ appMounted /\ WsClose
  \/ ReconnectTimerFires
  \/ appMounted /\ (\E newValue \in PageTexts : handleCodeChange(newValue))
  \/ appMounted /\ DebounceTimerFires
  \/ appMounted /\ DeliverLexerResult
  \/ appMounted /\ DeliverParserResult
  \/ appMounted /\ lastFileId < MaxSwitchFiles /\ HandleFileCreate
  \/ appMounted /\ HandleFileSelect
  \/ appMounted /\ ClearTerminal
  \/ appMounted /\ AppUnmount
  \/ ReplacedClose

SpecSwitch == InitTerm /\ [][SwitchNext]_vars

\* The file list, in a first visit and in a visit that finds maxFiles - 1
\* files: the handlers of the list and the close events of the replaced
\* sockets. A visit makes MaxNewFiles new files; the files of a first visit
\* are deleted down to one, those of the other visit down to maxFiles - 1.
InitFiles ==
  /\ AppInit /\ ServiceInit /\ TermInit
  /\ FilesInit \/ StoredFilesInit
  /\ content = "a"

FirstVisit == lastFileId <= 1 + MaxNewFiles

MayCreate ==
  IF FirstVisit THEN lastFileId < 1 + MaxNewFiles
  ELSE lastFileId < maxFiles - 1 + MaxNewFiles

MayDelete == FirstVisit \/ Len(files) >= maxFiles

FilesNext ==
  \/ ReplacedClose
  \/ MayCreate /\ HandleFileCreate
  \/ \E k \in 1..Len(files) : handleFileSelect(files[k], "a")
  \/ MayDelete /\ (\E k \in 1..Len(files) : handleFileDelete(files[k], "a"))
  \/ HandleOpenFromDisk
  \/ MayCreate /\ (\E k \in 1..Len(diskReads) : readerOnload(k, "a"))

SpecFiles == InitFiles /\ [][FilesNext]_vars

\* The page that is loaded and whose current file changes, with no edit: the
\* events of the service and the handlers that change the current file
LoadNext ==
  \/ WsOpen
  \/ WsClose
  \/ ReconnectTimerFires
  \/ ReplacedClose
  \/ lastFileId < MaxSwitchFiles /\ HandleFileCreate
  \/ HandleFileSelect

SpecLoad == Init /\ [][LoadNext]_vars

\* A socket that is connecting gets its open event unless it is closed, a
\* timer that was set fires, and a socket that was closed reports it.
FairSpecLoad ==
  /\ SpecLoad
  /\ WF_vars(WsOpen)
  /\ WF_vars(ReconnectTimerFires)
  /\ WF_vars(ReplacedClose)

(***************************************************************************)
(* Properties of the editor page                                           *)
(***************************************************************************)
\* C1: a burst of handleCodeChange calls inside one debounce window makes
\* one sendCode call, and its argument is the text of the last call of the
\* burst, which is the content of the file when the timer fires.
C1_SendsLastTextOfBurst ==
  [][(DebounceTimerFires /\ serviceIsConnected)
       => inflight' = Append(inflight, [forText |-> content, stage |-> "lexer"])]_vars

\* C2: right after a lexerResult frame is handled Syntax, Semantic and
\* Execution are Pending and syntaxValid is false, also during a run; right
\* after a parserResult frame Semantic and Execution are Pending and Syntax
\* is Success when the frame's syntaxValid is true and Error otherwise.
C2_ResultsResetLaterPhases ==
  [][/\ \A data \in LexerFrames :
          DeliverLexerResultOf(data) =>
            /\ syntaxStatus'.type = PENDING
            /\ semanticStatus'.type = PENDING
            /\ executionStatus'.type = PENDING
            /\ ~syntaxValid'
     /\ \A data \in ParserFrames :
          DeliverParserResultOf(data) =>
            /\ semanticStatus'.type = PENDING
            /\ executionStatus'.type = PENDING
            /\ syntaxStatus'.type = IF data.syntaxValid THEN SUCCESS ELSE ERROR]_vars

\* a result frame was handled during a run and has reset Execution
C2_Witness ==
  /\ isRunning
  /\ requests # <<>>
  /\ lexicalStatus.message = <<"OK">>
  /\ syntaxStatus.type \in {SUCCESS, ERROR}
  /\ executionStatus.type = PENDING

\* C3: right after a parserResult frame with syntaxValid false canRun is
\* false; right after one with syntaxValid true canRun is true exactly when
\* no run is in progress and the trimmed content is not empty.
C3_CanRunAfterParserResult ==
  [][\A data \in ParserFrames :
       DeliverParserResultOf(data) =>
         IF data.syntaxValid
           THEN canRun' <=> (~isRunning' /\ Trim(content') # "")
           ELSE ~canRun']_vars

\* a valid parser result has made a non-empty file runnable
C3_Witness ==
  /\ canRun
  /\ syntaxStatus = createStatus(<<"OK">>, SUCCESS)
  /\ executionStatus.type = PENDING

\* The four phases in their order
Phases == <<lexicalStatus, syntaxStatus, semanticStatus, executionStatus>>

\* a step that changes an earlier phase leaves every later phase Pending,
\* unless the step sets that later phase too
ForwardInvalidates ==
  \A j \in 1..3 : \A i \in (j + 1)..4 :
    Phases'[j] # Phases[j] =>
      (Phases'[i].type = PENDING \/ Phases'[i] # Phases[i])

\* C4 (as stated): whatever handler changes an earlier phase, the open
\* listener, the debounce timer's not-connected error and handleSave
\* included, every later phase that is not set anew is Pending.
C4_AnyChangeInvalidates == [][ForwardInvalidates]_vars

\* C4 (amended): the same, for every handler but the three that only
\* annotate Lexical: the open listener, the debounce timer's not-connected
\* error and handleSave.
C4_ResultsInvalidateForward ==
  [][(~WsOpen /\ ~HandleSave /\ ~(DebounceTimerFires /\ ~serviceIsConnected))
       => ForwardInvalidates]_vars

\* the connection was lost after the parser and a run had reported: the
\* close listener has reset all three later phases
C4_Witness ==
  /\ lexicalStatus.message = <<"WebSocket Disconnected">>
  /\ tokens # <<>>
  /\ semanticValid = FALSE
  /\ syntaxStatus.type = PENDING
  /\ semanticStatus.type = PENDING
  /\ executionStatus.type = PENDING
  /\ isRunning

\* C5: a lexerResult or parserResult frame produced for a text other than
\* the current one is discarded: it changes neither the token list, nor
\* syntaxValid, nor any phase status.
C5_StaleFramesDiscarded ==
  [][((DeliverLexerResult \/ DeliverParserResult)
        /\ Head(inflight).forText # content)
       => UNCHANGED <<tokens, syntaxValid, lexicalStatus, syntaxStatus,
                      semanticStatus, executionStatus>>]_vars

\* C6: while isRunning is true canRun is false, handleRun issues no further
\* initiateRun call, and at most one initiateRun or executeRunWithInput
\* request is outstanding in any reachable state.
C6_OneRunSession ==
  /\ [](/\ Len(requests) <= 1
        /\ (isRunning => ~canRun)
        /\ (requests # <<>> \/ isInputModalVisible => isRunning))
  /\ [][(isRunning /\ HandleRun) => UNCHANGED requests]_vars

\* the execute-with-input call of a run is outstanding
C6_Witness ==
  /\ isRunning
  /\ Len(requests) = 1
  /\ requests[1].kind = "execute"
  /\ executionStatus.message = <<"Executing with inputs...">>

(***************************************************************************)
(* Properties of the interactive terminal                                  *)
(***************************************************************************)
LiveSockets == {s \in SocketIds : sockets[s].readyState \in {"connecting", "open"}}

C8_ExitFrameSetsStatus ==
  [][\A s \in SocketIds : \A c \in ExitCodes :
       SockMessage(s, [type |-> "exit", data |-> "", exit_code |-> c]) =>
         /\ currentExecutionStatus' =
              [message |-> <<"Exited (", ToString(c), ")">>,
               type |-> IF c = 0 THEN SUCCESS ELSE ERROR]
         /\ exitCalls'[s] = Append(exitCalls[s], c)]_vars

\* an exit frame with a non-zero code has just been handled
C8_Witness ==
  /\ termWrite = <<"[Process exited with code ", "2", "]">>
  /\ currentExecutionStatus.type = ERROR
  /\ \E s \in SocketIds : exitCalls[s] = <<2>> /\ sockets[s].readyState = "open"

\* an exit frame with code c has just been handled for the running session
ExitHandled(c) ==
  /\ termWrite = <<"[Process exited with code ", ToString(c), "]">>
  /\ ~isRunning
  /\ executionStatus = Exited(c)
  /\ currentExecutionStatus = Exited(c)

\* every execution socket is closed, the session is idle and the terminal
\* shows 'Exited (c)'
ExitSettled(c) ==
  /\ \A s \in SocketIds : sockets[s].readyState = "closed"
  /\ ~isRunning
  /\ currentExecutionStatus = Exited(c)

\* C9: after an exit frame with code c was handled on an attached session,
\* eventually the execution socket is closed, the session is idle and the
\* status shown is still 'Exited (c)'; a run started in the meantime begins
\* another session and ends the obligation.
C9_ExitLeadsToSettled ==
  \A c \in ExitCodes : ExitHandled(c) ~> (ExitSettled(c) \/ isRunning)

\* C10: on one execution connection onProcessExit is called at most once,
\* and a frame handled after the first exit frame changes neither the
\* terminal view nor the execution status.
C10_ExitOnceThenSilent ==
  /\ [](\A s \in SocketIds : Len(exitCalls[s]) <= 1)
  /\ [][\A s \in SocketIds : \A message \in TermFrames :
          (exitCalls[s] # <<>> /\ SockMessage(s, message)) =>
            /\ termWrite' = <<>>
            /\ UNCHANGED <<currentExecutionStatus, exitCalls>>]_vars

(***************************************************************************)
(* Properties of the debounce timer and of the analysis connection         *)
(***************************************************************************)
\* C23: when the debounce timer fires while the service is not connected,
\* nothing is sent, Lexical becomes Error 'Error: WebSocket not connected',
\* no timer and no request is left for the text, and the next edit will
\* schedule a timer.
C23_TimerWithoutTransportDrops ==
  [][(DebounceTimerFires /\ ~serviceIsConnected) =>
       /\ inflight' = inflight
       /\ lexicalStatus' =
            createStatus(<<"Error: WebSocket not connected">>, ERROR)
       /\ debounceTimer' = <<>>
       /\ ~reconnectTimer' \/ reconnectTimer
       /\ ~analyzing']_vars

\* the timer found the service not connected: the error is shown and the
\* editor waits for the next edit
C23_Witness ==
  /\ lexicalStatus = createStatus(<<"Error: WebSocket not connected">>, ERROR)
  /\ ~serviceIsConnected
  /\ inflight = <<>>
  /\ debounceTimer = <<>>
  /\ ~analyzing

\* C24: at most one debounce timer is pending, and exactly while analyzing
\* is set; an edit made while a timer is pending adds no timer and no send,
\* and a timer that fires makes at most one send.
C24_OnePendingTimer ==
  /\ [](Len(debounceTimer) <= 1 /\ (analyzing <=> debounceTimer # <<>>))
  /\ [][(HandleCodeChange /\ debounceTimer # <<>>)
          => UNCHANGED <<debounceTimer, inflight>>]_vars
  /\ [][DebounceTimerFires => Len(inflight') <= Len(inflight) + 1]_vars

\* an edit was coalesced: the file holds a text other than the one the
\* pending timer keeps
C24_Witness ==
  /\ Len(debounceTimer) = 1
  /\ debounceTimer[1] # content
  /\ analyzing

\* C25: every handleCodeChange call, with a timer pending or not, leaves
\* Lexical Running 'Analyzing...', Syntax, Semantic and Execution Pending
\* and syntaxValid false; and syntaxValid turns true only when a
\* parserResult frame is handled, so canRun is false from an edit until then.
C25_EditInvalidatesAtOnce ==
  /\ [][HandleCodeChange =>
          /\ lexicalStatus' = createStatus(<<"Analyzing...">>, RUNNING)
          /\ syntaxStatus' = Pending
          /\ semanticStatus' = Pending
          /\ executionStatus' = Pending
          /\ ~syntaxValid'
          /\ ~(syntaxValid' /\ ~isRunning' /\ Trim(content') # "")]_vars
  /\ [][(~syntaxValid /\ syntaxValid') => DeliverParserResult]_vars

\* an edit was made while a timer was pending and the syntax was valid: the
\* phases are reset although no new timer was set
C25_Witness ==
  /\ lexicalStatus = createStatus(<<"Analyzing...">>, RUNNING)
  /\ syntaxStatus = Pending
  /\ ~syntaxValid
  /\ tokens # <<>>
  /\ debounceTimer # <<>>
  /\ debounceTimer[1] # content

\* C26: after the close event of the analysis connection Lexical is Info
\* 'WebSocket Disconnected', and after an error reported on it Lexical is an
\* Error status naming the error; in both cases Syntax, Semantic and
\* Execution are Pending and syntaxValid is false, so canRun is false.
C26_TransportEventsReset ==
  [][(WsClose \/ DeliverErrorFrame) =>
       /\ WsClose => lexicalStatus' =
                       createStatus(<<"WebSocket Disconnected">>, INFO)
       /\ DeliverErrorFrame =>
            (lexicalStatus'.type = ERROR /\ lexicalStatus'.message # Null)
       /\ syntaxStatus' = Pending
       /\ semanticStatus' = Pending
       /\ executionStatus' = Pending
       /\ ~syntaxValid'
       /\ ~(syntaxValid' /\ ~isRunning' /\ Trim(content') # "")]_vars

\* the connection was lost after the syntax had been found valid
C26_Witness ==
  /\ lexicalStatus = createStatus(<<"WebSocket Disconnected">>, INFO)
  /\ syntaxStatus = Pending
  /\ ~syntaxValid
  /\ tokens # <<>>
  /\ socket = "closed"

\* C27: the attempt counter stays between 0 and maxReconnectAttempts; an
\* open resets it to 0; a reconnect timer is set only by a close that finds
\* the counter below the maximum, and that close adds one to it; a new
\* connection is attempted only when a reconnect timer fires. So after a
\* loss at most maxReconnectAttempts attempts are made, one per timer, and
\* none after the close that finds the counter at the maximum.
C27_BoundedReconnects ==
  /\ [](reconnectAttempts \in 0..maxReconnectAttempts)
  /\ [][WsOpen => reconnectAttempts' = 0]_vars
  /\ [][(reconnectTimer' /\ ~reconnectTimer)
          => /\ WsClose
             /\ reconnectAttempts < maxReconnectAttempts
             /\ reconnectAttempts' = reconnectAttempts + 1]_vars
  /\ [][(WsClose /\ reconnectAttempts = maxReconnectAttempts)
          => (~reconnectTimer' /\ reconnectAttempts' = reconnectAttempts)]_vars
  /\ [][(socket' = "connecting" /\ socket # "connecting")
          => (ReconnectTimerFires /\ reconnectTimer)]_vars
  /\ [](reconnectTimer => socket = "closed")

\* the last automatic attempt has failed: the service stays disconnected
C27_Witness ==
  /\ reconnectAttempts = maxReconnectAttempts
  /\ socket = "closed"
  /\ ~reconnectTimer
  /\ ~serviceIsConnected

(***************************************************************************)
(* Properties of the run sequence of the editor page                       *)
(***************************************************************************)
\* C19: handleRun called while canRun is false makes no initiateRun call and
\* changes only the Execution status, to an Error; called while canRun is
\* true it sets isRunning, empties the program output and the transpiled
\* code, sets Semantic and Execution to Running and makes the initiateRun
\* call with the content of the file. No other step turns isRunning on.
C19_RunOnlyWhenCanRun ==
  /\ [][HandleRun =>
          IF syntaxValid /\ ~isRunning /\ Trim(content) # ""
            THEN /\ isRunning'
                 /\ programOutput' = ""
                 /\ transpiledCode' = ""
                 /\ semanticStatus'.type = RUNNING
                 /\ executionStatus'.type = RUNNING
                 /\ requests' =
                      Append(requests, [kind |-> "initiate", code |-> content])
            ELSE /\ executionStatus'.type = ERROR
                 /\ executionStatus'.message # Null
                 /\ UNCHANGED <<isRunning, semanticStatus, programOutput,
                                transpiledCode, requests>>]_vars
  /\ [][(~isRunning /\ isRunning')
          => (HandleRun /\ syntaxValid /\ Trim(content) # "")]_vars

\* handleRun was refused during a run: the reason is shown, the run goes on
C19_Witness ==
  /\ executionStatus = createStatus(<<"Already running.">>, ERROR)
  /\ isRunning
  /\ semanticStatus = createStatus(<<"Running...">>, RUNNING)
  /\ Len(requests) = 1

\* C20: when initiateRun settles with success false in the semantic phase,
\* Semantic is Error with the messages joined by '; ', Execution is Error
\* 'Aborted due to Semantic Error', isRunning is false, the input modal is
\* not shown and no call is made.
C20_SemanticErrorAborts ==
  [][\A k \in DOMAIN requests :
       (requests[k].kind = "initiate" /\ initiateSettled(k, "semantic_error"))
         => /\ semanticStatus' =
                 createStatus(<<"Error: ", "e1", "; ", "e2">>, ERROR)
            /\ executionStatus' =
                 createStatus(<<"Aborted due to Semantic Error">>, ERROR)
            /\ ~isRunning'
            /\ ~isInputModalVisible'
            /\ requests' = RemoveAt(requests, k)
            /\ \A j \in DOMAIN requests' : requests'[j].kind # "execute"
            /\ UNCHANGED <<requiredPrompts, transpiledCode, programOutput>>]_vars

\* the run was aborted by a semantic error and nothing is outstanding
C20_Witness ==
  /\ semanticStatus = createStatus(<<"Error: ", "e1", "; ", "e2">>, ERROR)
  /\ executionStatus = createStatus(<<"Aborted due to Semantic Error">>, ERROR)
  /\ ~isRunning
  /\ ~isInputModalVisible
  /\ requests = <<>>

\* C21: when the input modal is closed without submitting, the session is
\* idle, Execution is Info 'Run cancelled by user', the prompts are cleared,
\* no call is made or outstanding and no execution socket is made; and
\* executeRunWithInput is called only from the open modal of a running
\* session, which a cancelled run no longer has.
C21_CancelAtInputEndsRun ==
  /\ [][HandleInputModalClose =>
          /\ isRunning /\ ~isRunning'
          /\ executionStatus' = createStatus(<<"Run cancelled by user">>, INFO)
          /\ requiredPrompts' = <<>>
          /\ ~isInputModalVisible'
          /\ requests' = <<>>
          /\ sockets' = sockets]_vars
  /\ [][(\E k \in DOMAIN requests' : requests'[k].kind = "execute")
          => \/ \E k \in DOMAIN requests : requests[k].kind = "execute"
             \/ HandleInputSubmit /\ isRunning /\ isInputModalVisible]_vars
  /\ [](isInputModalVisible => isRunning)

\* the run was cancelled at the input modal
C21_Witness ==
  /\ executionStatus = createStatus(<<"Run cancelled by user">>, INFO)
  /\ semanticStatus = createStatus(<<"OK">>, SUCCESS)
  /\ ~isRunning
  /\ ~isInputModalVisible
  /\ requiredPrompts = <<>>
  /\ requests = <<>>

\* C22: when initiateRun settles with anything but input_required, and when
\* executeRunWithInput settles, isRunning is false and neither Semantic nor
\* Execution is Running afterwards; and Semantic or Execution is Running
\* only while a call is outstanding, so that a call that settles ends it.
C22_SettlementEndsRunning ==
  /\ [][\A k \in DOMAIN requests :
          (\/ /\ requests[k].kind = "initiate"
              /\ \E result \in RunResults \ {"input_required", "input_required_none"} :
                   initiateSettled(k, result)
           \/ /\ requests[k].kind = "execute"
              /\ \E result \in ExecuteResults : executeSettled(k, result))
            => /\ ~isRunning'
               /\ semanticStatus'.type # RUNNING
               /\ executionStatus'.type # RUNNING]_vars
  /\ []((semanticStatus.type = RUNNING \/ executionStatus.type = RUNNING)
          => requests # <<>>)
  /\ [][\A k \in DOMAIN requests :
          (\E result \in {"input_required", "input_required_none"} :
             requests[k].kind = "initiate" /\ initiateSettled(k, result))
            => /\ semanticStatus'.type # RUNNING
               /\ executionStatus'.type # RUNNING]_vars

\* executeRunWithInput was rejected: the run is over and the failure shown
C22_Witness ==
  /\ executionStatus = createStatus(<<"Execution Failed: ", "m">>, ERROR)
  /\ semanticStatus.type # RUNNING
  /\ ~isRunning
  /\ requests = <<>>

(***************************************************************************)
(* Properties of a lost or cancelled execution connection                  *)
(***************************************************************************)
\* C11: when the execution socket of a running session closes and no exit
\* frame was handled on it, the status shown becomes an Error status,
\* whatever status the render that made the socket's handlers had.
C11_LostConnectionReported ==
  [][\A s \in SocketIds : \A failed \in BOOLEAN :
       (/\ isRunning
        /\ wsRef = s
        /\ sockets[s].readyState = "open"
        /\ exitCalls[s] = <<>>
        /\ SockClose(s, failed))
         => currentExecutionStatus'.type = ERROR]_vars

\* C12: when the execution socket of a running session fails or closes and
\* no exit frame was handled on it, the owner is told and the session is
\* idle afterwards: a running session is never left without its socket.
C12_LostConnectionEndsSession ==
  [][\A s \in SocketIds : \A failed \in BOOLEAN :
       (/\ isRunning
        /\ wsRef = s
        /\ exitCalls[s] = <<>>
        /\ SockClose(s, failed))
         => ~isRunning']_vars

\* C13: once a run is cancelled (the owner is idle and close() was called
\* on the socket, on which no exit frame was handled), no frame or event of
\* that socket changes the status shown or the session of the owner, or
\* calls onProcessExit.
C13_CancelledSocketIsSilent ==
  [][\A s \in SocketIds :
       (/\ ~isRunning
        /\ sockets[s].readyState = "closing"
        /\ exitCalls[s] = <<>>
        /\ \/ \E failed \in BOOLEAN : SockClose(s, failed)
           \/ \E message \in TermFrames : SockMessage(s, message))
         => UNCHANGED <<currentExecutionStatus, exitCalls, isRunning, runId,
                        websocketUrl, executionStatus>>]_vars

\* C14: when isRunning has turned false or the component is unmounted while
\* the held socket is connecting or open, close() is called on that socket,
\* and a running status shown by a component that stays mounted becomes
\* Info 'Stopped'.
C14_CancelOrTeardownCloses ==
  [][(/\ wsRef # 0
      /\ sockets[wsRef].readyState \in {"connecting", "open"}
      /\ \/ Unmount
         \/ Commit /\ wsDeps.isRunning /\ ~isRunning)
       => /\ sockets'[wsRef].readyState = "closing"
          /\ (mounted' /\ currentExecutionStatus.type = RUNNING)
               => currentExecutionStatus' = createStatus(<<"Stopped">>, INFO)]_vars


(***************************************************************************)
(* Properties of the line buffer of the terminal                           *)
(***************************************************************************)
\* the line after one more key that is not Enter: a printable character is
\* appended, Backspace or Delete removes the last character of a line that
\* is not empty, any other key leaves the line
LineAfter(line, key) ==
  IF key >= 32 /\ key # 127 THEN Append(line, key)
  ELSE IF key \in {8, 127} /\ line # <<>>
    THEN [i \in 1..(Len(line) - 1) |-> line[i]]
  ELSE line

\* C15: every key but Enter edits the line as LineAfter says and sends
\* nothing, and no event of a socket, of a render or of the session touches
\* the line; Enter on an open connection sends the line followed by one
\* newline, and the line is empty after Enter.
C15_EnterSendsEditedLine ==
  /\ [][\A key \in Keys :
          onData(<<key>>) =>
            IF key = 13
              THEN /\ lineBuffer' = <<>>
                   /\ (wsRef # 0 /\ sockets[wsRef].readyState = "open")
                        => wsSent' = lineBuffer \o <<10>>
              ELSE /\ lineBuffer' = LineAfter(lineBuffer, key)
                   /\ wsSent' = <<>>]_vars
  /\ [][(\/ OwnerRun \/ OwnerPrepared \/ OwnerPrepareFailed \/ OwnerCancel
         \/ Commit
         \/ \E s \in SocketIds : SockOpen(s)
         \/ \E s \in SocketIds, message \in TermFrames : SockMessage(s, message)
         \/ \E s \in SocketIds, failed \in BOOLEAN : SockClose(s, failed))
          => UNCHANGED lineBuffer]_vars

\* Enter has sent the line 'a ' of two characters
C15_Witness == wsSent = <<97, 32, 10>> /\ lineBuffer = <<>>

\* C16: the line buffer is empty right after the execution socket opens and
\* right after it closes.
C16_LineEmptyAtAttachAndDetach ==
  [][\A s \in SocketIds :
       (s = wsRef /\ (SockOpen(s) \/ \E failed \in BOOLEAN : SockClose(s, failed)))
         => lineBuffer' = <<>>]_vars

\* C17: Enter empties the line buffer in every case, and sends a frame
\* exactly when the component holds a socket and that socket is open.
C17_EnterClearsAndSendsIffOpen ==
  [][onData(<<13>>) =>
       /\ lineBuffer' = <<>>
       /\ wsSent' # <<>> <=> (wsRef # 0 /\ sockets[wsRef].readyState = "open")]_vars

\* Enter was pressed on a typed line while the socket was not open: the line
\* is gone and nothing was sent
C17_Witness ==
  /\ termWrite = <<"\r\n">>
  /\ wsSent = <<>>
  /\ lineBuffer = <<>>
  /\ wsRef # 0
  /\ sockets[wsRef].readyState = "connecting"

\* C18: Backspace or Delete on an empty line, and a control key other than
\* Backspace and Enter, change no line, write nothing and send nothing; a
\* visual backspace is written only when a character leaves a line that was
\* not empty, and a character is echoed only when it joins the line.
C18_NoOpKeysAndRubouts ==
  /\ [][\A key \in Keys :
          (/\ \/ key \in {8, 127} /\ lineBuffer = <<>>
              \/ key < 32 /\ key \notin {8, 13}
           /\ onData(<<key>>))
            => /\ UNCHANGED lineBuffer
               /\ termWrite' = <<>>
               /\ wsSent' = <<>>]_vars
  /\ [][\A key \in Keys :
          onData(<<key>>) =>
            /\ termWrite' = <<"\\b \\b">>
                 => (lineBuffer # <<>> /\ Len(lineBuffer') = Len(lineBuffer) - 1)
            /\ (key >= 32 /\ key # 127)
                 => Len(lineBuffer') = Len(lineBuffer) + 1]_vars

\* a visual backspace has just removed the only character of the line: as
\* many were written as characters echoed, and the next Backspace finds the
\* line empty
C18_Witness == termWrite = <<"\\b \\b">> /\ lineBuffer = <<>> /\ wsSent = <<>>


(***************************************************************************)
(* Properties of the frames and of the connecting session                   *)
(***************************************************************************)
\* the component holds a socket that is still connecting
Connecting == wsRef # 0 /\ sockets[wsRef].readyState = "connecting"

\* C28: a session whose socket is connecting leaves that state, whatever
\* the transport delivers.
C28_ConnectingEnds == Connecting ~> ~Connecting


\* a frame of a type the terminal does not know, on the socket s
UnknownTermFrame(s) ==
  \E message \in TermFrames :
    /\ message.type = "resize"
    /\ SockMessage(s, message)

\* C29: a frame of an unrecognised type, on the analysis connection or on the
\* execution connection, changes no phase status, no token list, not
\* syntaxValid, not the session, not the line buffer, and writes nothing to
\* the terminal; both connections stay open, so that the frames after it
\* find the handlers as they were.
C29_UnknownFramesIgnored ==
  [][ /\ DeliverUnknownFrame \/ (\E s \in SocketIds : UnknownTermFrame(s)) =>
           /\ UNCHANGED <<lexicalStatus, syntaxStatus, semanticStatus,
                          executionStatus, currentExecutionStatus, tokens,
                          syntaxValid, semanticValid, isRunning, exitCalls,
                          runId, websocketUrl, lineBuffer, isConnected>>
           /\ UNCHANGED <<socket, serviceIsConnected, inflight, sockets,
                          wsRef>>
      /\ DeliverUnknownFrame => UNCHANGED termWrite
      /\ (\E s \in SocketIds : UnknownTermFrame(s)) =>
           termWrite' = <<>> /\ wsSent' = <<>>
    ]_vars

\* both connections are open, tokens are shown, a session runs and a line is
\* being typed: an unknown frame can arrive on either connection
C29_Witness ==
  /\ socket = "open"
  /\ tokens # <<>>
  /\ lexicalStatus.type # PENDING
  /\ wsRef # 0
  /\ sockets[wsRef].readyState = "open"
  /\ isRunning
  /\ currentExecutionStatus.type = RUNNING
  /\ lineBuffer # <<>>

\* the session of the page is Idle: no run is in progress and no input is
\* asked for
SessionIdle == ~isRunning /\ ~isInputModalVisible

\* C30: in the initial state Syntax, Semantic and Execution are Pending with
\* no message, Lexical is Info with the message 'Ready', syntaxValid is false
\* and the session is Idle. (The last conjunct holds of every step: it makes
\* the formula one about the first state of a behaviour.)
C30_InitialStatuses ==
  /\ syntaxStatus = createStatus(Null, PENDING)
  /\ semanticStatus = createStatus(Null, PENDING)
  /\ executionStatus = createStatus(Null, PENDING)
  /\ lexicalStatus = createStatus(<<"Ready">>, INFO)
  /\ syntaxValid = FALSE
  /\ SessionIdle
  /\ [][TRUE]_vars

(***************************************************************************)
(* Properties of the sockets of one run                                    *)
(***************************************************************************)
\* the connection effect has already run for the run that is in progress:
\* isRunning, runId and websocketUrl are what they were at its last run
SameRun ==
  /\ isRunning
  /\ runId # 0
  /\ wsDeps.isRunning
  /\ wsDeps.runId = runId
  /\ wsDeps.websocketUrl = websocketUrl

\* C31: for one run exactly one execution socket is constructed, and it is
\* closed once: a render during the run, with isRunning, runId and
\* websocketUrl unchanged, constructs no socket and closes none, even when
\* the onProcessExit it is given is a new function.
C31_OneSocketPerRun ==
  [][Commit /\ SameRun => sockets' = sockets]_vars

(***************************************************************************)
(* Properties of the analysis service when the current file changes        *)
(***************************************************************************)
\* C32: the isConnected flag of the service is true exactly when its current
\* socket is open, also when the close event of a socket that disconnect()
\* has replaced arrives late.
C32_FlagMatchesSocket == serviceIsConnected <=> socket = "open"

\* C33: after disconnect() the service constructs no socket and schedules no
\* reconnect until the page calls connect() or sendCode again: the close event
\* of the socket that disconnect() closed schedules nothing, and after the
\* unmounting of the page, whose cleanup is the last call of the page, no new
\* socket is constructed.
C33_DisconnectStopsReconnect ==
  [][ /\ ReplacedClose => UNCHANGED <<reconnectAttempts, reconnectTimer>>
      /\ ~appMounted /\ socket # "connecting" => socket' # "connecting"
    ]_vars

\* C34: when the analysis connection is open for a file with content that
\* was loaded or switched to, an analysis request for that content is
\* eventually sent, with no edit.
C34_LoadedFileIsAnalysed ==
  (socket = "open" /\ content # "")
    ~> (\E k \in 1..Len(inflight) : inflight[k].forText = content)

\* C35: syntaxValid is true only while the Syntax status is Success, so Run
\* is never enabled while the Syntax status is Pending or Error.
C35_ValidMeansSyntaxSuccess ==
  /\ syntaxValid => syntaxStatus.type = SUCCESS
  /\ canRun => syntaxStatus.type \notin {PENDING, ERROR}

(***************************************************************************)
(* Properties of the responses of a run and of the text they belong to     *)
(***************************************************************************)
\* C36: a prepare or execute response that settles when the text is no
\* longer the text that was submitted does not overwrite the Pending
\* statuses and the cleared outputs the edit has set: a run result is shown
\* only for the current text.
C36_StaleResponsesDropped ==
  [][ \A k \in DOMAIN requests :
        /\ requests[k].code # content
        /\ InitiateSettles \/ ExecuteSettles
        /\ requests' = RemoveAt(requests, k)
        => UNCHANGED <<semanticStatus, executionStatus, programOutput,
                       transpiledCode>>
    ]_vars

\* C37: within one run, executeRunWithInput is sent the text that initiateRun
\* was sent when it asked for the inputs, also when the editor content was
\* changed while the input modal was open.
C37_ExecuteSendsPreparedText ==
  [][HandleInputSubmit => requests'[Len(requests')].code = runText]_vars

\* C38: after the response of initiateRun that reports a failure
\* (success:false, whatever its phase) is handled, the Semantic status is not
\* Success.
FailedPrepare == {"semantic_error", "failure"}

C38_FailedPrepareNotSuccess ==
  [][ \A k \in DOMAIN requests, result \in FailedPrepare :
        /\ requests[k].kind = "initiate"
        /\ InitiateSettles
        /\ initiateSettled(k, result)
        => semanticStatus'.type # SUCCESS ]_vars

\* C39: every stdin frame sent holds exactly one newline, as its last
\* character, and the line buffer never holds a character whose code is
\* below 32 or is 127, also when one onData event carries several
\* characters.
C39_CleanLineAndFrames ==
  /\ \A i \in DOMAIN lineBuffer : lineBuffer[i] >= 32 /\ lineBuffer[i] # 127
  /\ wsSent # <<>> =>
       /\ wsSent[Len(wsSent)] = 10
       /\ \A i \in 1..(Len(wsSent) - 1) : wsSent[i] # 10

\* C40: the file list holds between 1 and maxFiles files and currentFileId
\* is the id of a file of the list, whatever the order of the creations,
\* deletions, selections and disk reads, a disk read that ends after other
\* files were added included.
C40_FileListBounded ==
  /\ Len(files) >= 1
  /\ Len(files) <= maxFiles
  /\ \E k \in DOMAIN files : files[k] = currentFileId
=============================================================================
